---- MODULE Spec2Model ----
(***************************************************************************)
(* Model of demo_restaurant_rag.py: the scripted console demo main(), its  *)
(* blocking input() pauses, the sample catalog and the keyword dispatch    *)
(* that picks the canned response for a query.                             *)
(*                                                                         *)
(* Text is modelled by TLA+ strings.  Characters outside ASCII (the emoji  *)
(* of the printed lines) are written as bracketed ASCII tokens such as     *)
(* [star]; the ANSI colour wrappers of the print helpers are left out.     *)
(* A rating is held in tenths (4.5 is 45).                                 *)
(***************************************************************************)
EXTENDS Integers, Sequences, FiniteSets, TLC

VARIABLES pc, stdin, out, exit_code, sample_restaurants, queries, i, query

vars == <<pc, stdin, out, exit_code, sample_restaurants, queries, i, query>>

(* ------------------------------ bounds -------------------------------- *)

\* longest standard input (in lines) a run of main() is started with
MaxStdin == 8

\* longest query list the query loop is run on
MaxQueries == 3

(* ------------------------------ strings ------------------------------- *)

UpperCase == "ABCDEFGHIJKLMNOPQRSTUVWXYZ"

LowerCase == "abcdefghijklmnopqrstuvwxyz"

CharAt(s, k) == SubSeq(s, k, k)

\* the upper-case letters, as a set
UpperLetters == { CharAt(UpperCase, n) : n \in 1..Len(UpperCase) }

\* str.lower() on one ASCII character
LowerChar(c) ==
  IF c \in UpperLetters
  THEN CharAt(LowerCase, CHOOSE n \in 1..Len(UpperCase) : CharAt(UpperCase, n) = c)
  ELSE c

RECURSIVE LowerFrom(_, _)
\* the characters of s from position k on, each lower-cased
LowerFrom(s, k) ==
  IF k > Len(s) THEN ""
  ELSE LowerChar(CharAt(s, k)) \o LowerFrom(s, k + 1)

\* query.lower()
Lower(s) == LowerFrom(s, 1)

\* needle in s  (Python substring test)
Contains(needle, s) ==
  \E k \in 0..(Len(s) - Len(needle)) : SubSeq(s, k + 1, k + Len(needle)) = needle

\* f"{r['rating']}" for a rating held in tenths: 45 prints as 4.5
FormatRating(r) == ToString(r \div 10) \o "." \o ToString(r % 10)

\* one entry of the output log: the kind of block and its lines
Entry(kind, lines) == <<kind, lines>>

Kind(e) == e[1]

Text(e) == e[2]

(* --------------------------- program data ----------------------------- *)

\* the list literal bound to sample_restaurants
SampleRestaurants ==
  << [ name |-> "Joe's Pizza", cuisine |-> "Italian, Pizza",
       location |-> "New York, NY", rating |-> 45, price |-> "$$",
       description |->
         "Classic NYC slice joint since 1975. Famous for thin crust pizza." ],
     [ name |-> "Sushi Nakazawa", cuisine |-> "Japanese, Sushi",
       location |-> "New York, NY", rating |-> 48, price |-> "$$$$",
       description |->
         "Omakase experience from Jiro Dreams of Sushi apprentice." ],
     [ name |-> "Shake Shack", cuisine |-> "American, Burgers",
       location |-> "New York, NY", rating |-> 43, price |-> "$$",
       description |->
         "Modern roadside burger stand with quality ingredients." ] >>

\* the list literal bound to queries
BuiltinQueries ==
  << "Where can I find good pizza in New York?",
     "I want fancy Japanese food for a special occasion",
     "Quick casual lunch under $20?" >>

\* the six print_result lines of the "pizza" branch
PizzaResponse ==
  << "[pizza] Based on your query, I recommend:",
     "",
     "   Joe's Pizza [star] 4.5",
     "   [pin] New York, NY | [money] $$",
     "   Classic NYC slice joint since 1975.",
     "   Famous for thin crust pizza." >>

\* mutant: the price tier of the response differs from the catalog's
JapaneseResponse_WrongPrice ==
  << "[sushi] For a special Japanese dining experience:",
     "",
     "   Sushi Nakazawa [star] 4.8",
     "   [pin] New York, NY | [money] $$$",
     "   Omakase experience from Jiro Dreams",
     "   of Sushi apprentice." >>

\* the six print_result lines of the "japanese" branch
JapaneseResponse ==
  << "[sushi] For a special Japanese dining experience:",
     "",
     "   Sushi Nakazawa [star] 4.8",
     "   [pin] New York, NY | [money] $$$$",
     "   Omakase experience from Jiro Dreams",
     "   of Sushi apprentice." >>

\* the six print_result lines of the else branch
DefaultResponse ==
  << "[burger] For a quick casual lunch:",
     "",
     "   Shake Shack [star] 4.3",
     "   [pin] New York, NY | [money] $$",
     "   Modern roadside burger stand with",
     "   quality ingredients." >>

\* mutant: the "japanese" test is made before the "pizza" test
ResponseSelector_JapaneseFirst(q) ==
  IF Contains("japanese", Lower(q)) THEN JapaneseResponse
  ELSE IF Contains("pizza", Lower(q)) THEN PizzaResponse
  ELSE DefaultResponse

\* mutant: the query is matched as typed, without lower()
ResponseSelector_NoLower(q) ==
  IF Contains("pizza", q) THEN PizzaResponse
  ELSE IF Contains("japanese", q) THEN JapaneseResponse
  ELSE DefaultResponse

\* mutant: the second keyword is cut short to "japan"
ResponseSelector_Japan(q) ==
  IF Contains("pizza", Lower(q)) THEN PizzaResponse
  ELSE IF Contains("japan", Lower(q)) THEN JapaneseResponse
  ELSE DefaultResponse

\* mutant: no else branch, a query without a keyword gets no response lines
ResponseSelector_NoElse(q) ==
  IF Contains("pizza", Lower(q)) THEN PizzaResponse
  ELSE IF Contains("japanese", Lower(q)) THEN JapaneseResponse
  ELSE <<>>

\* mutant: a response already printed is not given again, the fallback is
ResponseSelector_NoRepeat(q) ==
  LET picked == IF Contains("pizza", Lower(q)) THEN PizzaResponse
                ELSE IF Contains("japanese", Lower(q)) THEN JapaneseResponse
                ELSE DefaultResponse
  IN  IF \E k \in 1..Len(out) : Text(out[k]) = picked
      THEN DefaultResponse
      ELSE picked

\* the if / elif / else that picks the response of a query
ResponseSelector(q) ==
  IF Contains("pizza", Lower(q)) THEN PizzaResponse
  ELSE IF Contains("japanese", Lower(q)) THEN JapaneseResponse
  ELSE DefaultResponse

(* ------------------------------ output -------------------------------- *)

Printed(kind, lines) == out' = Append(out, Entry(kind, lines))

\* input(prompt): the prompt is written, then a line is read from stdin and
\* dropped; at end of input EOFError is raised, nothing catches it, and the
\* interpreter exits with status 1
Input(prompt, next) ==
  /\ Printed("prompt", <<prompt>>)
  /\ \/ /\ stdin # <<>>
        /\ stdin' = Tail(stdin)
        /\ pc' = next
        /\ UNCHANGED exit_code
     \/ /\ stdin = <<>>
        /\ pc' = "EOFError"
        /\ exit_code' = "exit 1"
        /\ UNCHANGED stdin
  /\ UNCHANGED <<sample_restaurants, queries, i, query>>

\* a step that only prints
Show(at, entries, next) ==
  /\ pc = at
  /\ out' = out \o entries
  /\ pc' = next
  /\ UNCHANGED <<stdin, exit_code, sample_restaurants, queries, i, query>>

\* print_result(f"  [check] Added: {r['name']} ({r['cuisine']}) - {r['rating']}[star]")
AddedLine(r) ==
  "  [check] Added: " \o r.name \o " (" \o r.cuisine \o ") - "
    \o FormatRating(r.rating) \o "[star]"

(* ------------------------------ main() -------------------------------- *)

\* title banner and feature list
ShowIntro ==
  Show("main",
       << Entry("header", <<"[pizza] Restaurant RAG System Demo">>),
          Entry("text", <<"This demo showcases a RAG system">>) >>,
       "input_start")

InputStart ==
  /\ pc = "input_start"
  /\ Input("Press Enter to start the demo...", "architecture")

ShowArchitecture ==
  Show("architecture",
       << Entry("header", <<"Architecture Overview">>),
          Entry("text", <<"User Query -> Query Parser -> RAG Engine -> Response Generator">>) >>,
       "input_code")

InputCode ==
  /\ pc = "input_code"
  /\ Input("Press Enter to see code examples...", "initialize")

ShowInitialize ==
  Show("initialize",
       << Entry("header", <<"Step 1: Initialize the System">>),
          Entry("step", <<"[Step 1] Import and create the RAG engine">>),
          Entry("code", <<"from rag_engine import RestaurantRAGEngine",
                          "engine = RestaurantRAGEngine()">>),
          Entry("result", <<"[ok] RAG engine initialized with:",
                            "  - OpenAI GPT-4o-mini for generation",
                            "  - text-embedding-3-small for embeddings",
                            "  - FAISS vector store">>) >>,
       "input_add")

InputAdd ==
  /\ pc = "input_add"
  /\ Input("Press Enter to add sample data...", "add_data")

\* mutant: the printing loop pops each record off the list as it prints it
AddSampleData_Pops ==
  /\ pc = "add_data"
  /\ sample_restaurants' = <<>>
  /\ out' = out \o
       << Entry("header", <<"Step 2: Add Restaurant Data">>),
          Entry("step", <<"[Step 2] Add sample restaurant data">>),
          Entry("code", <<"engine.add_restaurants(sample_restaurants)">>),
          Entry("added", [k \in 1..Len(SampleRestaurants) |->
                            AddedLine(SampleRestaurants[k])]) >>
  /\ pc' = "input_run"
  /\ UNCHANGED <<stdin, exit_code, queries, i, query>>

\* the catalog is built, then one "Added" line is printed per record
AddSampleData ==
  /\ pc = "add_data"
  /\ sample_restaurants' = SampleRestaurants
  /\ out' = out \o
       << Entry("header", <<"Step 2: Add Restaurant Data">>),
          Entry("step", <<"[Step 2] Add sample restaurant data">>),
          Entry("code", <<"engine.add_restaurants(sample_restaurants)">>),
          Entry("added", [k \in 1..Len(sample_restaurants') |->
                            AddedLine(sample_restaurants'[k])]) >>
  /\ pc' = "input_run"
  /\ UNCHANGED <<stdin, exit_code, queries, i, query>>

InputRun ==
  /\ pc = "input_run"
  /\ Input("Press Enter to run queries...", "queries")

\* header of the query section and the queries list
SetQueries ==
  /\ pc = "queries"
  /\ out' = Append(out, Entry("header", <<"Step 3: Natural Language Queries">>))
  /\ queries' = BuiltinQueries
  /\ i' = 0
  /\ pc' = "loop"
  /\ UNCHANGED <<stdin, exit_code, sample_restaurants, query>>

\* mutant: the list is walked from its end
LoopNext_Reversed ==
  /\ pc = "loop"
  /\ i < Len(queries)
  /\ i' = i + 1
  /\ query' = queries[Len(queries) - i]
  /\ out' = out \o
       << Entry("query", <<"[Step " \o ToString(i + 1) \o "] Query: \""
                             \o queries[Len(queries) - i] \o "\"",
                           "result = engine.query('" \o queries[Len(queries) - i] \o "')">>) >>
  /\ pc' = "respond"
  /\ UNCHANGED <<stdin, exit_code, sample_restaurants, queries>>

\* for i, query in enumerate(queries, 1): the next query is bound and echoed
LoopNext ==
  /\ pc = "loop"
  /\ i < Len(queries)
  /\ i' = i + 1
  /\ query' = queries[i + 1]
  /\ out' = out \o
       << Entry("query", <<"[Step " \o ToString(i + 1) \o "] Query: \""
                             \o queries[i + 1] \o "\"",
                           "result = engine.query('" \o queries[i + 1] \o "')">>) >>
  /\ pc' = "respond"
  /\ UNCHANGED <<stdin, exit_code, sample_restaurants, queries>>

\* the simulated response of the current query
Respond ==
  /\ pc = "respond"
  /\ out' = Append(out, Entry("response", ResponseSelector(query)))
  /\ pc' = "pause"
  /\ UNCHANGED <<stdin, exit_code, sample_restaurants, queries, i, query>>

\* mutant: the pause is taken after every query, the last one included
InputNextQuery_AfterEvery ==
  /\ pc = "pause"
  /\ Input("Press Enter for next query...", "loop")

\* if i < len(queries): input(...)
InputNextQuery ==
  /\ pc = "pause"
  /\ i < Len(queries)
  /\ Input("Press Enter for next query...", "loop")

\* after the last query there is no pause
SkipPause ==
  /\ pc = "pause"
  /\ i >= Len(queries)
  /\ pc' = "loop"
  /\ UNCHANGED <<stdin, out, exit_code, sample_restaurants, queries, i, query>>

\* the loop is exhausted: the agent reasoning block follows
ShowReasoning ==
  /\ i >= Len(queries)
  /\ Show("loop",
          << Entry("header", <<"Step 4: Agent Reasoning (LangGraph)">>),
             Entry("text", <<"The LangGraph agent breaks down complex queries:">>) >>,
          "input_api")

InputApi ==
  /\ pc = "input_api"
  /\ Input("Press Enter for API demo...", "api")

\* REST API block, then the closing block; main() returns
ShowApiAndComplete ==
  /\ pc = "api"
  /\ out' = out \o
       << Entry("header", <<"Step 5: REST API">>),
          Entry("code", <<"# Start server", "uvicorn api:app --reload">>),
          Entry("text", <<"Endpoints:", "POST /query", "POST /restaurants",
                          "GET  /restaurants", "GET  /health">>),
          Entry("code", <<"curl -X POST http://localhost:8000/query \\",
                          "  -H 'Content-Type: application/json' \\",
                          "  -d '{\"query\": \"Best tacos in Austin\"}'">>),
          Entry("header", <<"Demo Complete! [party]">>),
          Entry("text", <<"Key Takeaways:", "Questions?">>) >>
  /\ pc' = "done"
  /\ exit_code' = "exit 0"
  /\ UNCHANGED <<stdin, sample_restaurants, queries, i, query>>

(* --------------------------- specifications --------------------------- *)

\* lines a user may type at a pause
Lines == {"", "y"}

\* standard input of a run: any sequence of at most MaxStdin lines
StdinSet == UNION { [1..n -> Lines] : n \in 0..MaxStdin }

\* process start: nothing printed, the locals of main() not yet bound
Init ==
  /\ pc = "main"
  /\ stdin \in StdinSet
  /\ out = <<>>
  /\ exit_code = "running"
  /\ sample_restaurants = <<>>
  /\ queries = <<>>
  /\ i = 0
  /\ query = ""

\* the query loop of main()
NextLoop ==
  \/ LoopNext
  \/ Respond
  \/ InputNextQuery
  \/ SkipPause

Next ==
  \/ ShowIntro
  \/ InputStart
  \/ ShowArchitecture
  \/ InputCode
  \/ ShowInitialize
  \/ InputAdd
  \/ AddSampleData
  \/ InputRun
  \/ SetQueries
  \/ NextLoop
  \/ ShowReasoning
  \/ InputApi
  \/ ShowApiAndComplete

Spec == Init /\ [][Next]_vars

\* sequential execution: the next statement always runs, and a blocking read
\* returns (with a line or with end of input)
FairSpec == Spec /\ WF_vars(Next)

(* ----------- the query loop on arbitrary query strings ---------------- *)

\* pieces queries are put together from: the keywords in several letter
\* cases, halves of them, and the empty string
Fragments == {"", "pizza", "PiZ", "zA!", "Japanese", " jAPAN", "ESE "}

\* query strings the loop is run on
QuerySet ==
  { a \o b : a \in Fragments, b \in Fragments }
    \cup {"PIZZA", "Pizza", "pIzZa"}
    \cup { BuiltinQueries[k] : k \in 1..Len(BuiltinQueries) }

\* the state at the for statement, with queries bound to any list of at most
\* MaxQueries strings made of one or two queries of QuerySet, and with
\* either no input left or a line for every pause
InitSelect ==
  /\ pc = "loop"
  /\ stdin \in {<<>>, [k \in 1..MaxQueries |-> ""]}
  /\ out = <<>>
  /\ exit_code = "running"
  /\ sample_restaurants = SampleRestaurants
  /\ \E q \in QuerySet, r \in QuerySet, n \in 1..MaxQueries :
       queries \in [1..n -> {q, r}]
  /\ i = 0
  /\ query = ""

SpecSelect == InitSelect /\ [][NextLoop]_vars

(* ------------------------ reading the output -------------------------- *)

\* the response blocks printed so far, in order
Responses == SelectSeq(out, LAMBDA e : Kind(e) = "response")

\* the query echoes printed so far, in order
Echoes == SelectSeq(out, LAMBDA e : Kind(e) = "query")

\* the prompts of the input() calls made so far, in order
Prompts == SelectSeq(out, LAMBDA e : Kind(e) = "prompt")

Range(f) == { f[k] : k \in DOMAIN f }

\* a letter in its two cases, for every letter
CasePairs == { {CharAt(UpperCase, n), CharAt(LowerCase, n)} : n \in 1..Len(UpperCase) }

\* the same letter, in either case
SameLetter(c, d) == c = d \/ {c, d} \in CasePairs

\* word occurs in s at some position, letter by letter, in any letter case
ContainsAnyCase(s, word) ==
  \E k \in 0..(Len(s) - Len(word)) :
    \A j \in 1..Len(word) : SameLetter(CharAt(s, k + j), CharAt(word, j))

\* the head line of a response block shows record r: its name and its rating
\* with one decimal place
Shows(lines, r) ==
  /\ Len(lines) = 6
  /\ lines[3] = "   " \o r.name \o " [star] " \o FormatRating(r.rating)

\* the record of the catalog with the given name
Record(name) == CHOOSE r \in Range(sample_restaurants) : r.name = name

\* the k-th response exists and shows the record with the given name
Answered(k, name) ==
  /\ k \in 1..Len(Responses)
  /\ Shows(Text(Responses[k]), Record(name))

(* ------------------------------ claims -------------------------------- *)

\* C1: every query that contains "pizza" in any letter case is answered with
\* the Joe's Pizza record, whatever else it contains ("japanese" included).
C1_PizzaSelectsJoes ==
  \A k \in 1..Len(Responses) :
    ContainsAnyCase(queries[k], "pizza") => Answered(k, "Joe's Pizza")

\* a query with "japanese" before "pizza" and a query with "pizza" in mixed
\* case were answered
C1_Witness ==
  /\ \E k \in 1..Len(Responses) :
       queries[k] = "Japanesepizza" /\ Answered(k, "Joe's Pizza")
  /\ \E k \in 1..Len(Responses) :
       queries[k] = "PiZzA!" /\ Answered(k, "Joe's Pizza")

\* C2: every query that does not contain "pizza" but contains "japanese", in
\* any letter case, is answered with the Sushi Nakazawa record.
C2_JapaneseSelectsSushi ==
  \A k \in 1..Len(Responses) :
    (/\ ~ContainsAnyCase(queries[k], "pizza")
     /\ ContainsAnyCase(queries[k], "japanese"))
      => Answered(k, "Sushi Nakazawa")

\* a query with "japanese" in mixed case and a query with "japanese" after
\* half of "pizza" were answered
C2_Witness ==
  /\ \E k \in 1..Len(Responses) :
       queries[k] = " jAPANESE " /\ Answered(k, "Sushi Nakazawa")
  /\ \E k \in 1..Len(Responses) :
       queries[k] = "PiZJapanese" /\ Answered(k, "Sushi Nakazawa")

\* C3: every query that contains neither keyword, the empty string included,
\* is answered with the Shake Shack record.
C3_OtherSelectsShake ==
  \A k \in 1..Len(Responses) :
    (/\ ~ContainsAnyCase(queries[k], "pizza")
     /\ ~ContainsAnyCase(queries[k], "japanese"))
      => Answered(k, "Shake Shack")

\* the empty query and a near miss of both keywords were answered
C3_Witness ==
  /\ \E k \in 1..Len(Responses) :
       queries[k] = "" /\ Answered(k, "Shake Shack")
  /\ \E k \in 1..Len(Responses) :
       queries[k] = " jAPANPiZ" /\ Answered(k, "Shake Shack")

\* C4: selection is total: every query the loop has passed got exactly one
\* response, each response shows exactly one record of the catalog, and the
\* only abnormal end is the one of a read at a pause, never of the selection.
C4_SelectionTotal ==
  /\ Len(Responses) = IF pc = "respond" THEN i - 1 ELSE i
  /\ \A k \in 1..Len(Responses) :
       Cardinality({ r \in Range(sample_restaurants) :
                       Shows(Text(Responses[k]), r) }) = 1
  /\ exit_code = "exit 1" =>
       /\ Kind(out[Len(out)]) = "prompt"
       /\ Len(Responses) = i

\* the whole list was answered, the empty query and the longest one included
C4_Witness ==
  /\ pc = "loop"
  /\ i = Len(queries)
  /\ Len(Responses) = Len(queries)
  /\ "" \in Range(queries)
  /\ BuiltinQueries[2] \in Range(queries)

\* C7: selection is idempotent: two selections for the same query string in
\* one run give the same response, whatever was selected in between.
C7_Idempotent ==
  \A a \in 1..Len(Responses), b \in 1..Len(Responses) :
    queries[a] = queries[b] => Responses[a] = Responses[b]

\* a query was answered twice, with a different query answered differently
\* in between
C7_Witness ==
  /\ Len(Responses) >= 3
  /\ queries[1] = queries[3]
  /\ queries[2] # queries[1]
  /\ Responses[1] = Responses[3]
  /\ Responses[2] # Responses[1]

\* C5: a pause accepts any input, end of input included, as "continue", and
\* the program has no error exit.
C5_EndOfInputContinues == pc # "EOFError" /\ exit_code # "exit 1"

\* C6: from its construction to process exit the catalog is the same three
\* records, with unique names and ratings within [0.0, 5.0]; before it, no
\* record was printed or selected; no step changes the catalog once built.
C6_CatalogFixed ==
  /\ [](\/ /\ sample_restaurants = <<>>
           /\ \A e \in Range(out) : Kind(e) \notin {"added", "response"}
        \/ /\ Len(sample_restaurants) = 3
           /\ [k \in 1..3 |-> sample_restaurants[k].name]
                = <<"Joe's Pizza", "Sushi Nakazawa", "Shake Shack">>
           /\ \A a \in 1..3, b \in 1..3 :
                sample_restaurants[a].name = sample_restaurants[b].name => a = b
           /\ \A k \in 1..3 : sample_restaurants[k].rating \in 0..50)
  /\ [][sample_restaurants # <<>> => sample_restaurants' = sample_restaurants]_vars

\* the run ended with the records printed, three queries answered and the
\* catalog still in place
C6_Witness ==
  /\ pc = "done"
  /\ Len(sample_restaurants) = 3
  /\ \E e \in Range(out) : Kind(e) = "added" /\ Len(Text(e)) = 3
  /\ Len(Responses) = 3

\* the head line of a response: a name and a rating as printed
HeadLine(name, rating) == "   " \o name \o " [star] " \o rating

\* C8: the three built-in queries are echoed and answered in list order: Joe's
\* Pizza 4.5, then Sushi Nakazawa 4.8, then Shake Shack 4.3, each response
\* after the echo of its query, and a complete run has all three.
C8_BuiltinRun ==
  LET asked  == << "Where can I find good pizza in New York?",
                   "I want fancy Japanese food for a special occasion",
                   "Quick casual lunch under $20?" >>
      answer == << HeadLine("Joe's Pizza", "4.5"),
                   HeadLine("Sushi Nakazawa", "4.8"),
                   HeadLine("Shake Shack", "4.3") >>
  IN  /\ Len(Echoes) <= 3
      /\ Len(Responses) \in {Len(Echoes), Len(Echoes) - 1}
      /\ \A k \in 1..Len(Echoes) :
           Text(Echoes[k])[1]
             = "[Step " \o ToString(k) \o "] Query: \"" \o asked[k] \o "\""
      /\ \A k \in 1..Len(Responses) :
           /\ Len(Text(Responses[k])) = 6
           /\ Text(Responses[k])[3] = answer[k]
      /\ pc = "done" => Len(Responses) = 3

\* a complete run, its last response being the one for the third query
C8_Witness ==
  /\ pc = "done"
  /\ exit_code = "exit 0"
  /\ Len(Responses) = 3
  /\ Text(Responses[3])[3] = HeadLine("Shake Shack", "4.3")

\* a display line without its indentation
Strip(s) ==
  LET first == CHOOSE k \in 1..(Len(s) + 1) :
                 /\ \A j \in 1..(k - 1) : CharAt(s, j) = " "
                 /\ k <= Len(s) => CharAt(s, k) # " "
  IN  SubSeq(s, first, Len(s))

\* a response block renders record r: name, rating with one decimal place,
\* location, price tier, and the description over two display lines
Renders(lines, r) ==
  /\ Shows(lines, r)
  /\ lines[4] = "   [pin] " \o r.location \o " | [money] " \o r.price
  /\ Strip(lines[5]) \o " " \o Strip(lines[6]) = r.description

\* C9: every response printed renders one record of the catalog field by
\* field, and the three responses of a run render the three records.
C9_ResponseRendersRecord ==
  /\ \A k \in 1..Len(Responses) :
       \E r \in Range(sample_restaurants) : Renders(Text(Responses[k]), r)
  /\ Len(Responses) = 3 =>
       \A r \in Range(sample_restaurants) :
         \E k \in 1..3 : Renders(Text(Responses[k]), r)

\* all three branches were taken and each rendered its own record
C9_Witness ==
  /\ Len(Responses) = 3
  /\ \A k \in 1..3 : Renders(Text(Responses[k]), sample_restaurants[k])
  /\ Cardinality(Range(Responses)) = 3

\* the prompts of the seven pauses, in program order
SevenPrompts ==
  << "Press Enter to start the demo...",
     "Press Enter to see code examples...",
     "Press Enter to add sample data...",
     "Press Enter to run queries...",
     "Press Enter for next query...",
     "Press Enter for next query...",
     "Press Enter for API demo..." >>

\* responses and "next query" pauses, in the order they were printed
Pacing ==
  LET kept == SelectSeq(out, LAMBDA e :
                \/ Kind(e) = "response"
                \/ e = Entry("prompt", <<"Press Enter for next query...">>))
  IN  [k \in 1..Len(kept) |-> Kind(kept[k])]

\* C10: the reads happen in the fixed order of the seven prompts; responses
\* and "next query" pauses alternate, with no pause after the last response;
\* a run whose seven reads all return a line reads exactly seven lines, prints
\* the "Demo Complete" block and terminates.
C10_SevenReads ==
  /\ [](/\ Len(Prompts) <= 7
        /\ \A k \in 1..Len(Prompts) : Text(Prompts[k]) = <<SevenPrompts[k]>>
        /\ Len(Pacing) <= 5
        /\ \A k \in 1..Len(Pacing) :
             Pacing[k] = IF k % 2 = 1 THEN "response" ELSE "prompt"
        /\ pc = "done" =>
             /\ Len(Prompts) = 7
             /\ Len(Pacing) = 5
             /\ out[Len(out) - 1] = Entry("header", <<"Demo Complete! [party]">>))
  /\ \A n \in 7..MaxStdin :
       [](pc = "main" /\ Len(stdin) = n
            => <>(pc = "done" /\ exit_code = "exit 0" /\ Len(stdin) = n - 7))

\* a complete run that started with more input than it reads
C10_Witness ==
  /\ pc = "done"
  /\ Len(Prompts) = 7
  /\ Len(stdin) = 1

====
